---- MODULE Spec2Model ----
(***************************************************************************)
(* Model of the log client of src/app.js.                                  *)
(*                                                                         *)
(* Part I models the top-level apiFetch (src/app.js:229-319): one call,    *)
(* its retry loop, its timeout timers and the classification of failures.  *)
(* Every action is one run of the function between two await points (the   *)
(* browser's event loop runs such a piece to completion).  The free        *)
(* identifiers apiBase and apiKey of that function are taken to be bound   *)
(* by the hosting page, as the function needs them to get past line 242.   *)
(***************************************************************************)
EXTENDS Integers, Sequences, FiniteSets, TLC

(***************************************************************************)
(* Bounds of the model and constants of the program.                       *)
(***************************************************************************)
MaxRetries == 2
MaxHandlers == 2

DefaultTimeout == 30000
DefaultRetries == 0
DefaultRetryDelay == 1000

\* an option the caller did not supply (undefined in the options object)
None == -1
\* error.status of an error that has no status property
NoStatus == 0

ApiBase == "/api"
Paths == {"/logs"}

OptTimeouts == {None, 50}
OptRetries == {None} \cup (0..MaxRetries)
OptRetryDelays == {None, 10}

(***************************************************************************)
(* JavaScript values, as far as apiFetch looks at them: undefined, null,   *)
(* strings, parsed JSON objects with their message, error and logs fields, *)
(* and blobs.  Absent marks a field an object does not have; an array is   *)
(* kept as its length, None when the object has no such field.             *)
(***************************************************************************)
Absent == "<absent>"

UndefinedV ==
    [type |-> "undefined", str |-> "", message |-> Absent, error |-> Absent, logs |-> None]
NullV ==
    [type |-> "null", str |-> "", message |-> Absent, error |-> Absent, logs |-> None]
StrV(s) ==
    [type |-> "string", str |-> s, message |-> Absent, error |-> Absent, logs |-> None]
ObjV(m, e, l) ==
    [type |-> "object", str |-> "", message |-> m, error |-> e, logs |-> l]
BlobV(raw) ==
    [type |-> "blob", str |-> raw, message |-> Absent, error |-> Absent, logs |-> None]

\* ToBoolean
Truthy(v) ==
    CASE v.type = "undefined" -> FALSE
      [] v.type = "null" -> FALSE
      [] v.type = "string" -> v.str # ""
      [] OTHER -> TRUE

\* a || b
OrElse(a, b) == IF Truthy(a) THEN a ELSE b

\* ToString, as the Error constructor applies it to its argument
ToStringJS(v) ==
    CASE v.type = "undefined" -> "undefined"
      [] v.type = "null" -> "null"
      [] v.type = "string" -> v.str
      [] v.type = "object" -> "[object Object]"
      [] OTHER -> "[object Blob]"

\* data?.message and data?.error
FieldMessage(v) ==
    IF v.type = "object" /\ v.message # Absent THEN StrV(v.message) ELSE UndefinedV
FieldError(v) ==
    IF v.type = "object" /\ v.error # Absent THEN StrV(v.error) ELSE UndefinedV

(***************************************************************************)
(* Responses of the backend: status line, content-type header and the      *)
(* bytes of the body.                                                      *)
(***************************************************************************)
Statuses == {200, 404, 500}
\* the reason phrase of a status line; HTTP/2 responses have none ("")
StatusTextOf(st) ==
    CASE st = 200 -> "OK"
      [] st = 404 -> "Not Found"
      [] st = 500 -> "Internal Server Error"
      [] OTHER -> ""
NullHeader == "<null>"
ContentTypeHeaders == {"application/json; charset=utf-8", "text/csv", NullHeader}

BodyMessage == "{\"message\":\"bad input\"}"
BodyError == "{\"message\":\"\",\"error\":\"denied\"}"
BodyLogs == "{\"logs\":[]}"
BodyTwoLogs == "{\"logs\":[{\"message\":\"a\"},{\"message\":\"b\"}]}"
BodyEmpty == ""
RawBodies == {BodyMessage, BodyError, BodyLogs, BodyEmpty}

CoreResponses ==
    {[status |-> st, statusText |-> StatusTextOf(st), contentType |-> ct, body |-> b] :
        st \in Statuses, ct \in ContentTypeHeaders, b \in RawBodies}
MoreResponses ==
    {[status |-> 422, statusText |-> "", contentType |-> "application/json; charset=utf-8",
      body |-> BodyMessage],
     [status |-> 404, statusText |-> "", contentType |-> "text/csv", body |-> BodyEmpty],
     [status |-> 503, statusText |-> "Service Unavailable", contentType |-> "text/csv",
      body |-> BodyEmpty]}
Responses == CoreResponses \cup MoreResponses

\* res.ok
Ok(r) == r.status >= 200 /\ r.status <= 299

\* res.headers.get('content-type') || ''
ContentType(r) == IF r.contentType = NullHeader THEN "" ELSE r.contentType

\* contentType.includes('application/json'), contentType.includes('text/')
IncludesJson(ct) == ct \in {"application/json", "application/json; charset=utf-8"}
IncludesText(ct) == ct \in {"text/csv", "text/plain", "text/html"}

\* JSON.parse of a body: the bodies that are JSON texts, and their values
JsonValid(raw) == raw \in {BodyMessage, BodyError, BodyLogs, BodyTwoLogs}
JsonParse(raw) ==
    CASE raw = BodyMessage -> ObjV("bad input", Absent, None)
      [] raw = BodyError -> ObjV("", "denied", None)
      [] raw = BodyLogs -> ObjV(Absent, Absent, 0)
      [] raw = BodyTwoLogs -> ObjV(Absent, Absent, 2)
      [] OTHER -> NullV
JsonSyntaxError(raw) == "Unexpected end of JSON input"
StreamError == "network error"

(***************************************************************************)
(* Errors: the properties apiFetch sets or reads.  "at" is history: the    *)
(* attempt index in whose iteration the error object was created.          *)
(***************************************************************************)
NoError ==
    [name |-> "", message |-> "", status |-> NoStatus, statusText |-> "",
     data |-> UndefinedV, url |-> "", at |-> None]
PlainError(nm, msg, a) ==
    [name |-> nm, message |-> msg, status |-> NoStatus, statusText |-> "",
     data |-> UndefinedV, url |-> "", at |-> a]


(***************************************************************************)
(* State of one call of apiFetch.                                          *)
(*   opts, path          the caller's arguments                            *)
(*   timeout, retries, retryDelay, sentHeaders, url                        *)
(*                       the locals set before the loop                    *)
(*   pc                  where the call is suspended: "init" (not called), *)
(*                       "fetching" (await fetch), "parsing" (await of the *)
(*                       body), "delay" (await of the backoff timer),      *)
(*                       "returned", "thrown"                              *)
(*   attempt             the loop index                                    *)
(*   timers              the attempts whose timeout timer is armed         *)
(*   res                 the response whose body is being read             *)
(*   lastError           the local of that name                            *)
(*   result, thrown      what the call returned or threw                   *)
(* History: attempts (fetches started), delays (backoff delays started),   *)
(* outcomes (how each attempt ended), lastRes (the response, if any, of    *)
(* the attempt that ended last), fired (the attempts whose timer fired     *)
(* while the fetch or the body of another attempt was awaited).            *)
(***************************************************************************)
VARIABLES opts, path, timeout, retries, retryDelay, sentHeaders, url,
          pc, attempt, timers, res, lastError, result, thrown,
          attempts, delays, outcomes, lastRes, fired

apiVars == <<opts, path, timeout, retries, retryDelay, sentHeaders, url,
             pc, attempt, timers, res, lastError, result, thrown,
             attempts, delays, outcomes, lastRes, fired>>

(***************************************************************************)
(* State of the page (the closure of src/app.js:1-216).                    *)
(*   loaded              whether init() has run                            *)
(*   storedKey           localStorage's item 'uls_api_key'                 *)
(*   messageInput        the value of the message field                    *)
(*   apiStatus           the status area: its text and its class           *)
(*   logsTable           the number of log rows the table shows            *)
(*   tasks               the invocations of refreshLogs, submitLog and     *)
(*                       exportCSV: where each is suspended, the key its   *)
(*                       pending request carries, the response it reads    *)
(*   started             how many invocations have begun                   *)
(* History: latest (the task of the refreshLogs that began most recently,  *)
(* 0 when none has).                                                       *)
(***************************************************************************)
VARIABLES loaded, storedKey, messageInput, apiStatus, logsTable, tasks, started,
          latest

uiVars == <<loaded, storedKey, messageInput, apiStatus, logsTable, tasks, started,
            latest>>

(***************************************************************************)
(* A second call of apiFetch, made with the same arguments while the first *)
(* is suspended at an await: other holds the locals of the call that is    *)
(* not running.                                                            *)
(***************************************************************************)
VARIABLE other

vars == <<apiVars, uiVars, other>>

config == <<opts, path, timeout, retries, retryDelay, sentHeaders, url>>

\* the locals of the running invocation of apiFetch
Locals ==
    [timeout |-> timeout, retries |-> retries, retryDelay |-> retryDelay,
     sentHeaders |-> sentHeaders, url |-> url, pc |-> pc, attempt |-> attempt,
     timers |-> timers, res |-> res, lastError |-> lastError, result |-> result,
     thrown |-> thrown, attempts |-> attempts, delays |-> delays,
     outcomes |-> outcomes, lastRes |-> lastRes, fired |-> fired]

ApiKey == "uls_key"

\* the caller's options: the three settings, and the Content-Type header
\* some callers pass
OptsSet ==
    {o \in [timeout : OptTimeouts, retries : OptRetries, retryDelay : OptRetryDelays,
            contentType : {Absent, "text/plain"}] :
        /\ (o.timeout = None) = (o.retryDelay = None)
        /\ o.contentType = Absent \/ o.timeout = None}

NoRes == [status |-> 0, statusText |-> "", contentType |-> NullHeader, body |-> ""]

Outcome(k, s) == [kind |-> k, status |-> s]

\* const { timeout = 30000, retries = 0, retryDelay = 1000, ... } = opts
Default(v, d) == IF v = None THEN d ELSE v

\* fetchOptions.headers = { ...fetchOptions.headers, 'X-API-KEY': apiKey,
\*   'Content-Type': fetchOptions.headers?.['Content-Type'] || 'application/json' }
MergeHeaders(o) ==
    [xApiKey |-> ApiKey,
     contentType |-> IF o.contentType # Absent /\ o.contentType # ""
                     THEN o.contentType ELSE "application/json"]

(***************************************************************************)
(* The page before its script has run, and the tasks of its handlers.      *)
(***************************************************************************)
\* localStorage.getItem of an item that is not stored
NoKey == "<null>"
\* the local key of getApiKey after key = data.api_key, when the answer has
\* no api_key
UndefinedKey == "<undefined>"

\* the answer of POST /key/generate when its body is no JSON: no data
NoKeyResponse == [valid |-> FALSE, status |-> Absent, api_key |-> Absent]

NoTask == [kind |-> "none", pc |-> "idle", key |-> NoKey, res |-> NoRes]

PageNotLoaded ==
    /\ loaded = FALSE
    /\ messageInput = ""
    /\ apiStatus = [text |-> "", class |-> ""]
    /\ logsTable = 0
    /\ tasks = [t \in 1..MaxHandlers |-> NoTask]
    /\ started = 0
    /\ latest = 0

\* the locals of an invocation that has not begun
NotCalled ==
    [timeout |-> None, retries |-> None, retryDelay |-> None,
     sentHeaders |-> [xApiKey |-> Absent, contentType |-> Absent], url |-> "",
     pc |-> "init", attempt |-> 0, timers |-> {}, res |-> NoRes,
     lastError |-> NoError, result |-> UndefinedV, thrown |-> NoError,
     attempts |-> 0, delays |-> <<>>, outcomes |-> <<>>, lastRes |-> NoRes,
     fired |-> {}]

\* a call of the top-level apiFetch, on a page whose handlers do not run
Init ==
    /\ PageNotLoaded
    /\ storedKey = NoKey
    /\ opts \in OptsSet
    /\ path \in Paths
    /\ timeout = None /\ retries = None /\ retryDelay = None
    /\ sentHeaders = [xApiKey |-> Absent, contentType |-> Absent]
    /\ url = ""
    /\ pc = "init"
    /\ attempt = 0
    /\ timers = {}
    /\ res = NoRes
    /\ lastError = NoError
    /\ result = UndefinedV
    /\ thrown = NoError
    /\ attempts = 0
    /\ delays = <<>>
    /\ outcomes = <<>>
    /\ lastRes = NoRes
    /\ fired = {}
    /\ other = NotCalled

(***************************************************************************)
(* The pieces of the loop body.                                            *)
(***************************************************************************)
\* the loop condition: attempt <= retries
LoopConditionOneMore(a, r) == a <= r + 1
LoopCondition(a, r) == a <= r

\* error.name === 'AbortError'
IsAbortErrorOtherName(error) == error.name = "TimeoutError"
IsAbortError(error) == error.name = "AbortError"

\* error.status >= 400 && error.status < 500
IsClientErrorInverted(error) == error.status >= 500
IsClientError(error) == error.status >= 400 /\ error.status < 500

\* attempt < retries: whether to wait before the next attempt
ShouldDelayAlways(a, r) == a <= r
ShouldDelayNever(a, r) == FALSE
ShouldDelay(a, r) == a < r

\* retryDelay * (attempt + 1)
RetryDelayConstant(d, a) == d
RetryDelayFor(d, a) == d * (a + 1)

\* `Request timeout after ${timeout}ms`
TimeoutMessage(t) == "Request timeout after " \o ToString(t) \o "ms"

\* `Failed to parse response: ${parseError.message}`
ParseFailureMessage(m) == "Failed to parse response: " \o m

\* data?.message || data?.error || data || res.statusText || `HTTP ${res.status}`
ErrorMessageStatusFirst(data, r) ==
    OrElse(StrV(r.statusText),
           OrElse(FieldMessage(data), OrElse(FieldError(data),
                  OrElse(data, StrV("HTTP " \o ToString(r.status))))))
ErrorMessage(data, r) ==
    OrElse(FieldMessage(data),
           OrElse(FieldError(data),
                  OrElse(data,
                         OrElse(StrV(r.statusText),
                                StrV("HTTP " \o ToString(r.status))))))

\* new Error(errorMessage) with status, statusText, data and url attached
HttpError(data, r, u, a) ==
    [name |-> "Error", message |-> ToStringJS(ErrorMessage(data, r)),
     status |-> r.status, statusText |-> r.statusText, data |-> data,
     url |-> u, at |-> a]

\* the body as the branch for the content type reads it
ParseBody(r) ==
    IF IncludesJson(ContentType(r)) THEN JsonParse(r.body)
    ELSE IF IncludesText(ContentType(r)) THEN StrV(r.body)
    ELSE BlobV(r.body)

\* whether reading the delivered body throws (res.json() on a non-JSON text)
ParseThrows(r) == IncludesJson(ContentType(r)) /\ ~JsonValid(r.body)

(***************************************************************************)
(* The head of an iteration for index a (lines 250-260): when the loop     *)
(* condition holds a timer is armed and the fetch issued; otherwise the    *)
(* loop is left and lastError (err) is thrown (line 318).  tm is the set   *)
(* of armed timers at this point; lr is the response of the attempt that   *)
(* has just ended (history, dropped when the next attempt starts).         *)
(***************************************************************************)
Iterate(a, r, err, tm, lr) ==
    IF LoopCondition(a, r)
    THEN /\ pc' = "fetching"
         /\ attempt' = a
         /\ timers' = tm \cup {a}
         /\ attempts' = attempts + 1
         /\ thrown' = thrown
         /\ lastRes' = NoRes
    ELSE /\ pc' = "thrown"
         /\ attempt' = a
         /\ timers' = tm
         /\ attempts' = attempts
         /\ thrown' = err
         /\ lastRes' = lr

(***************************************************************************)
(* The catch block (lines 300-315) and, when it falls through without a    *)
(* delay, the loop's increment and next iteration.                         *)
(***************************************************************************)
Catch(error, tm, lr) ==
    /\ lastError' = error
    /\ IF IsAbortError(error)
       THEN /\ pc' = "thrown"
            /\ thrown' = PlainError("Error", TimeoutMessage(timeout), attempt)
            /\ timers' = tm
            /\ lastRes' = lr
            /\ UNCHANGED <<attempt, attempts, delays>>
       ELSE IF IsClientError(error)
       THEN /\ pc' = "thrown"
            /\ thrown' = error
            /\ timers' = tm
            /\ lastRes' = lr
            /\ UNCHANGED <<attempt, attempts, delays>>
       ELSE IF ShouldDelay(attempt, retries)
       THEN /\ pc' = "delay"
            /\ delays' = Append(delays, RetryDelayFor(retryDelay, attempt))
            /\ timers' = tm
            /\ lastRes' = lr
            /\ UNCHANGED <<attempt, attempts, thrown>>
       ELSE /\ Iterate(attempt + 1, retries, error, tm, lr)
            /\ UNCHANGED delays


(***************************************************************************)
(* The actions: the call, and one action for each way an await ends.       *)
(***************************************************************************)
\* the caller's options object after the destructuring and the merge of the
\* headers: both work on fetchOptions, a copy (lines 231-244)
CallerOptsMergedInPlace(o) == [o EXCEPT !.contentType = MergeHeaders(o).contentType]
CallerOpts(o) == o

\* apiFetch(path, opts) up to the first await fetch (lines 229-260)
Call ==
    /\ pc = "init"
    /\ opts' = CallerOpts(opts)
    /\ timeout' = Default(opts.timeout, DefaultTimeout)
    /\ retries' = Default(opts.retries, DefaultRetries)
    /\ retryDelay' = Default(opts.retryDelay, DefaultRetryDelay)
    /\ sentHeaders' = MergeHeaders(opts)
    /\ url' = ApiBase \o path
    /\ lastError' = NoError
    /\ Iterate(0, Default(opts.retries, DefaultRetries), NoError, timers, NoRes)
    /\ UNCHANGED <<path, res, result, delays, outcomes, fired>>
    /\ UNCHANGED <<uiVars, other>>

\* await fetch(...) ends with a response: clearTimeout, then the body is
\* awaited (lines 256-276)
FetchResolve(r) ==
    /\ pc = "fetching"
    /\ timers' = timers \ {attempt}
    /\ res' = r
    /\ pc' = "parsing"
    /\ UNCHANGED <<config, attempt, lastError, result, thrown, attempts, delays,
                   outcomes, lastRes, fired>>
    /\ UNCHANGED <<uiVars, other>>

\* await fetch(...) ends with a network failure: the catch block runs and
\* the timer stays armed (lines 256, 300-315)
FetchReject ==
    /\ pc = "fetching"
    /\ Catch(PlainError("TypeError", "Failed to fetch", attempt), timers, NoRes)
    /\ outcomes' = Append(outcomes, Outcome("network", NoStatus))
    /\ UNCHANGED <<config, res, result, fired>>
    /\ UNCHANGED <<uiVars, other>>

\* whether the controller of attempt i is the one whose signal the fetch of
\* attempt a was given: each iteration makes its own (lines 253, 259)
CancelsAny(i, a) == TRUE
Cancels(i, a) == i = a

\* the timeout timer of attempt i fires: controller.abort() (line 254).
\* Only the fetch issued with that controller, while pending, is rejected.
TimeoutFire(i) ==
    /\ i \in timers
    /\ IF pc = "fetching" /\ Cancels(i, attempt)
       THEN /\ Catch(PlainError("AbortError", "The user aborted a request.", attempt),
                     timers \ {i}, NoRes)
            /\ outcomes' = Append(outcomes, Outcome("timeout", NoStatus))
            /\ UNCHANGED fired
       ELSE /\ timers' = timers \ {i}
            /\ fired' = IF pc \in {"fetching", "parsing"} THEN fired \cup {i} ELSE fired
            /\ UNCHANGED <<pc, attempt, lastError, thrown, attempts, delays, outcomes,
                           lastRes>>
    /\ UNCHANGED <<config, res, result>>
    /\ UNCHANGED <<uiVars, other>>

\* the body has arrived and is decoded (lines 268-298); an HTTP error or a
\* decoding failure goes through the catch block in the same run
BodyRead ==
    /\ pc = "parsing"
    /\ IF ParseThrows(res)
       THEN /\ Catch(PlainError("Error",
                                ParseFailureMessage(JsonSyntaxError(res.body)),
                                attempt), timers, res)
            /\ outcomes' = Append(outcomes, Outcome("parse", res.status))
            /\ UNCHANGED result
       ELSE IF ~Ok(res)
       THEN /\ Catch(HttpError(ParseBody(res), res, url, attempt), timers, res)
            /\ outcomes' = Append(outcomes, Outcome("http", res.status))
            /\ UNCHANGED result
       ELSE /\ pc' = "returned"
            /\ result' = ParseBody(res)
            /\ outcomes' = Append(outcomes, Outcome("ok", res.status))
            /\ lastRes' = res
            /\ UNCHANGED <<attempt, timers, lastError, thrown, attempts, delays>>
    /\ res' = NoRes
    /\ UNCHANGED <<config, fired>>
    /\ UNCHANGED <<uiVars, other>>

\* reading the body fails in the transport (lines 268-279)
BodyFail ==
    /\ pc = "parsing"
    /\ Catch(PlainError("Error", ParseFailureMessage(StreamError), attempt), timers,
             res)
    /\ outcomes' = Append(outcomes, Outcome("parse", res.status))
    /\ res' = NoRes
    /\ UNCHANGED <<config, result, fired>>
    /\ UNCHANGED <<uiVars, other>>

\* the backoff timer fires: attempt++ and the next iteration (lines 313, 250)
DelayElapsed ==
    /\ pc = "delay"
    /\ Iterate(attempt + 1, retries, lastError, timers, lastRes)
    /\ UNCHANGED <<config, res, lastError, result, delays, outcomes, fired>>
    /\ UNCHANGED <<uiVars, other>>

Next ==
    \/ Call
    \/ \E r \in Responses : FetchResolve(r)
    \/ FetchReject
    \/ \E i \in 0..(MaxRetries + 1) : TimeoutFire(i)
    \/ BodyRead
    \/ BodyFail
    \/ DelayElapsed

Spec == Init /\ [][Next]_vars

Done == pc \in {"returned", "thrown"}

(***************************************************************************)
(* The same call when everything that runs locally is scheduled: the call  *)
(* itself and the browser's timers (the timeout timers and the backoff     *)
(* timer).  Nothing is assumed of the backend: a response, a failure or a  *)
(* body may never come.                                                    *)
(***************************************************************************)
FairSpec ==
    /\ Spec
    /\ WF_vars(Call)
    /\ \A i \in 0..(MaxRetries + 1) : WF_vars(TimeoutFire(i))
    /\ WF_vars(DelayElapsed)

(***************************************************************************)
(* Two concurrent calls made with the same path and the same options       *)
(* object.  The event loop runs one invocation at a time, from one await   *)
(* to the next; Switch is the loop turning to the other invocation, whose  *)
(* locals become the running ones.  What the two share, the arguments and  *)
(* the page, is not exchanged.                                             *)
(***************************************************************************)
Switch ==
    /\ other # Locals
    /\ other' = Locals
    /\ timeout' = other.timeout
    /\ retries' = other.retries
    /\ retryDelay' = other.retryDelay
    /\ sentHeaders' = other.sentHeaders
    /\ url' = other.url
    /\ pc' = other.pc
    /\ attempt' = other.attempt
    /\ timers' = other.timers
    /\ res' = other.res
    /\ lastError' = other.lastError
    /\ result' = other.result
    /\ thrown' = other.thrown
    /\ attempts' = other.attempts
    /\ delays' = other.delays
    /\ outcomes' = other.outcomes
    /\ lastRes' = other.lastRes
    /\ fired' = other.fired
    /\ UNCHANGED <<opts, path>>
    /\ UNCHANGED uiVars

PairOpts == {o \in OptsSet : o.retries \in {None, 1} /\ o.timeout = None}

PairResponses ==
    {[status |-> 200, statusText |-> "OK",
      contentType |-> "application/json; charset=utf-8", body |-> BodyLogs],
     [status |-> 500, statusText |-> "Internal Server Error",
      contentType |-> "application/json; charset=utf-8", body |-> BodyMessage],
     [status |-> 404, statusText |-> "Not Found", contentType |-> "text/csv",
      body |-> BodyEmpty]}

PairInit == Init /\ opts \in PairOpts

PairNext ==
    \/ Call
    \/ \E r \in PairResponses : FetchResolve(r)
    \/ FetchReject
    \/ \E i \in 0..(MaxRetries + 1) : TimeoutFire(i)
    \/ BodyRead
    \/ BodyFail
    \/ DelayElapsed
    \/ Switch

PairSpec == PairInit /\ [][PairNext]_vars

(***************************************************************************)
(* Properties of the call.                                                 *)
(***************************************************************************)
\* an attempt that failed in a way the policy retries: HTTP status >= 500,
\* or a network failure (no status)
Retryable(o) == (o.kind = "http" /\ o.status >= 500) \/ o.kind = "network"

\* C1: an attempt cancelled by its own timeout timer is the last thing the
\* call does: it is the final attempt, no backoff delay follows it, and the
\* call has thrown "Request timeout after <timeout>ms" with the configured
\* timeout, whatever retries is.
C1_TimeoutEndsCall ==
    \A i \in 1..Len(outcomes) :
        outcomes[i].kind = "timeout" =>
            /\ i = Len(outcomes)
            /\ attempts = i
            /\ Len(delays) = i - 1
            /\ pc = "thrown"
            /\ thrown.message = "Request timeout after " \o ToString(timeout) \o "ms"
            /\ timeout = (IF opts.timeout = None THEN 30000 ELSE opts.timeout)

C1_Witness ==
    /\ pc = "thrown"
    /\ Len(outcomes) = 2
    /\ outcomes[2].kind = "timeout"
    /\ retries = 2
    /\ thrown.message = "Request timeout after 50ms"

C3_ParseFailureTerminal ==
    \A i \in 1..Len(outcomes) :
        outcomes[i].kind = "parse" =>
            /\ i = Len(outcomes)
            /\ attempts = i
            /\ pc = "thrown"
            /\ thrown.message \in
                {"Failed to parse response: " \o m :
                    m \in {"Unexpected end of JSON input", "network error"}}

\* C4: N retryable failures followed by a success: the call has returned the
\* decoded body of the last response after N+1 attempts, having waited
\* retryDelay*1, ..., retryDelay*N in that order.
C4_RetriesThenSuccess ==
    LET n == Len(outcomes) - 1 IN
    (/\ Len(outcomes) >= 1
     /\ \A i \in 1..n : Retryable(outcomes[i])
     /\ outcomes[n + 1].kind = "ok") =>
        /\ pc = "returned"
        /\ n <= retries
        /\ attempts = n + 1
        /\ delays = [k \in 1..n |-> retryDelay * k]
        /\ result = (IF lastRes.contentType = "application/json; charset=utf-8"
                     THEN JsonParse(lastRes.body)
                     ELSE IF lastRes.contentType = "text/csv"
                     THEN StrV(lastRes.body)
                     ELSE BlobV(lastRes.body))

C4_Witness ==
    /\ pc = "returned"
    /\ Len(outcomes) = 3
    /\ outcomes[1] = Outcome("http", 500)
    /\ outcomes[2] = Outcome("network", NoStatus)
    /\ outcomes[3].kind = "ok"
    /\ delays = <<10, 20>>

\* C5: with retries = 0 a call makes one attempt and waits no delay,
\* however that attempt ends.
C5_NoRetriesOneAttempt ==
    (pc # "init" /\ retries = 0) =>
        /\ attempts = 1
        /\ delays = <<>>
        /\ Len(outcomes) <= 1
        /\ Done = (Len(outcomes) = 1)

C5_Witness ==
    /\ retries = 0
    /\ pc = "thrown"
    /\ attempts = 1
    /\ outcomes = <<Outcome("http", 500)>>

\* C6: when every attempt failed in a retryable way and the call has ended,
\* it made retries+1 attempts, waited retries delays (none after the final
\* attempt) and threw the error of the final attempt; and a call that
\* returned had a successful last response.
C6_ExhaustedThrowsLastError ==
    /\ (/\ Done
        /\ Len(outcomes) >= 1
        /\ \A i \in 1..Len(outcomes) : Retryable(outcomes[i])) =>
            /\ pc = "thrown"
            /\ attempts = retries + 1
            /\ Len(outcomes) = retries + 1
            /\ delays = [k \in 1..retries |-> retryDelay * k]
            /\ thrown.at = retries
            /\ thrown.status = outcomes[Len(outcomes)].status
            /\ thrown = lastError
    /\ pc = "returned" =>
            /\ Len(outcomes) >= 1
            /\ outcomes[Len(outcomes)].kind = "ok"
            /\ Ok(lastRes)

C6_Witness ==
    /\ pc = "thrown"
    /\ retries = 2
    /\ outcomes = <<Outcome("http", 500), Outcome("network", NoStatus),
                    Outcome("http", 503)>>
    /\ thrown.status = 503

\* C7: no timeout timer is leaked: the timer of the current attempt is not
\* armed while its body is read, and none is armed once the call has ended.
C7_NoLeakedTimer ==
    /\ pc = "parsing" => attempt \notin timers
    /\ Done => timers = {}

\* C8: every call ends, when timers fire.
C8_Terminates == <>Done

\* C9 as stated: after every response that is not ok, the error of that
\* attempt carries the status, the status text and the URL, and when the
\* body was decoded also the body, with the message taken from the chain
\* message field, error field, body, status text, "HTTP <code>".
C9_Original ==
    (/\ Len(outcomes) >= 1
     /\ outcomes[Len(outcomes)].kind \in {"http", "parse"}
     /\ lastRes # NoRes
     /\ ~Ok(lastRes)) =>
        /\ lastError.status = lastRes.status
        /\ lastError.statusText = lastRes.statusText
        /\ lastError.url = "/api" \o path

\* C9 as amended: after every response that is not ok and whose body was
\* decoded, the message of the error is the first truthy one of: the body's
\* message field, its error field, the body, the status text, "HTTP <code>"
\* (as a string), and the error carries the status, the status text, the
\* decoded body and the URL.
C9_HttpErrorMessage ==
    LET d == ParseBody(lastRes) IN
    (/\ Len(outcomes) >= 1
     /\ outcomes[Len(outcomes)].kind = "http"
     /\ lastRes # NoRes) =>
        /\ ~Ok(lastRes)
        /\ lastError.message =
              (IF d.type = "object" /\ d.message \notin {Absent, ""} THEN d.message
               ELSE IF d.type = "object" /\ d.error \notin {Absent, ""} THEN d.error
               ELSE IF d.type = "object" THEN "[object Object]"
               ELSE IF d.type = "blob" THEN "[object Blob]"
               ELSE IF d.type = "string" /\ d.str # "" THEN d.str
               ELSE IF lastRes.statusText # "" THEN lastRes.statusText
               ELSE "HTTP " \o ToString(lastRes.status))
        /\ lastError.status = lastRes.status
        /\ lastError.statusText = lastRes.statusText
        /\ lastError.data = d
        /\ lastError.url = "/api" \o path

C9_Witness ==
    /\ pc = "thrown"
    /\ lastRes.status = 422
    /\ lastRes.body = BodyMessage
    /\ thrown.message = "bad input"
    /\ thrown.status = 422

(***************************************************************************)
(* Part II: the handlers of the page, src/app.js:1-216.  refreshLogs and   *)
(* submitLog call the apiFetch of the closure (lines 53-78), which hides   *)
(* the top-level function of the same name; exportCSV calls fetch itself.  *)
(* A task is one invocation of a handler, and after a submitLog that       *)
(* succeeded the refreshLogs it calls as its last statement; an action is  *)
(* one run of a handler between two awaits.  The page's elements all exist.*)
(***************************************************************************)
MessageValues == {"", "  ", "disk full "}

\* String.prototype.trim
TrimNothing(v) == v
Trim(v) == IF v = "disk full " THEN "disk full" ELSE IF v = "  " THEN "" ELSE v

\* what POST /key/generate answers: a key (a new one for every request, here
\* numbered after the task that asked), a refusal, a success without a key,
\* or a body that is no JSON
KeyAnswers == {"issued", "refused", "nokey", "garbage"}
KeyResponse(a, n) ==
    CASE a = "issued" ->
            [valid |-> TRUE, status |-> "success", api_key |-> "key" \o ToString(n)]
      [] a = "refused" -> [valid |-> TRUE, status |-> "error", api_key |-> Absent]
      [] a = "nokey" -> [valid |-> TRUE, status |-> "success", api_key |-> Absent]
      [] OTHER -> NoKeyResponse

\* what the backend answers to the requests of the handlers
PageResponses ==
    {[status |-> 200, statusText |-> "OK",
      contentType |-> "application/json; charset=utf-8", body |-> BodyTwoLogs],
     [status |-> 200, statusText |-> "OK",
      contentType |-> "application/json; charset=utf-8", body |-> BodyEmpty],
     [status |-> 200, statusText |-> "OK", contentType |-> "text/csv",
      body |-> BodyEmpty],
     [status |-> 500, statusText |-> "Internal Server Error",
      contentType |-> "application/json; charset=utf-8", body |-> BodyMessage],
     [status |-> 404, statusText |-> "", contentType |-> "text/csv",
      body |-> BodyEmpty]}

BodyUsedError == "body stream already read"

\* setStatus(msg, isError, isSuccess)
SetStatus(msg, isError, isSuccess) ==
    [text |-> msg,
     class |-> IF isError THEN "error" ELSE IF isSuccess THEN "success" ELSE "info"]

\* the message each handler puts before err.message in its catch block
FailurePrefix(kind) ==
    CASE kind = "refresh" -> "Fetch failed: "
      [] kind = "submit" -> "Submit failed: "
      [] OTHER -> "Export failed: "

\* getApiKey up to its first await, then the caller up to its fetch: with a
\* stored key the request is issued at once, without one the key is asked for
BeginRequest(kind, stored) ==
    IF stored # NoKey
    THEN [kind |-> kind, pc |-> "fetch", key |-> stored, res |-> NoRes]
    ELSE [kind |-> kind, pc |-> "keygen", key |-> NoKey, res |-> NoRes]

\* the X-API-KEY header of a handler's request: the closure's apiFetch sets
\* it when the key is truthy (line 56); exportCSV puts the key into the
\* headers whatever it is (line 167), and fetch sends it as a string
XApiKeyHeader(kind, key) ==
    IF kind = "export"
    THEN (IF key = NoKey THEN "null" ELSE IF key = UndefinedKey THEN "undefined"
          ELSE key)
    ELSE (IF key \in {NoKey, UndefinedKey} THEN Absent ELSE key)

\* a handler's invocation that has ended
Ended == [kind |-> "none", pc |-> "done", key |-> NoKey, res |-> NoRes]

UIInit ==
    /\ PageNotLoaded
    /\ storedKey \in {NoKey, "key0"}
    /\ opts = [timeout |-> None, retries |-> None, retryDelay |-> None,
               contentType |-> Absent]
    /\ path = "/logs"
    /\ timeout = None /\ retries = None /\ retryDelay = None
    /\ sentHeaders = [xApiKey |-> Absent, contentType |-> Absent]
    /\ url = ""
    /\ pc = "init"
    /\ attempt = 0
    /\ timers = {}
    /\ res = NoRes
    /\ lastError = NoError
    /\ result = UndefinedV
    /\ thrown = NoError
    /\ attempts = 0
    /\ delays = <<>>
    /\ outcomes = <<>>
    /\ lastRes = NoRes
    /\ fired = {}
    /\ other = NotCalled

\* init(): the listeners are registered and refreshLogs() is called
Startup ==
    /\ ~loaded
    /\ loaded' = TRUE
    /\ started' = started + 1
    /\ apiStatus' = SetStatus("Fetching logs...", FALSE, FALSE)
    /\ tasks' = [tasks EXCEPT ![started + 1] = BeginRequest("refresh", storedKey)]
    /\ latest' = started + 1
    /\ UNCHANGED <<storedKey, messageInput, logsTable>>
    /\ UNCHANGED <<apiVars, other>>

\* the user edits the message field
TypeMessage(v) ==
    /\ loaded
    /\ messageInput # v
    /\ messageInput' = v
    /\ UNCHANGED <<loaded, storedKey, apiStatus, logsTable, tasks, started, latest>>
    /\ UNCHANGED <<apiVars, other>>

\* a click on Refresh: refreshLogs() up to its first await
ClickRefresh ==
    /\ loaded
    /\ started < MaxHandlers
    /\ started' = started + 1
    /\ apiStatus' = SetStatus("Fetching logs...", FALSE, FALSE)
    /\ tasks' = [tasks EXCEPT ![started + 1] = BeginRequest("refresh", storedKey)]
    /\ latest' = started + 1
    /\ UNCHANGED <<loaded, storedKey, messageInput, logsTable>>
    /\ UNCHANGED <<apiVars, other>>

\* a click on Submit (or Ctrl+Enter): submitLog() up to its first await
ClickSubmit ==
    /\ loaded
    /\ IF Trim(messageInput) = ""
       THEN /\ apiStatus' = SetStatus("Please enter a message", TRUE, FALSE)
            /\ UNCHANGED <<tasks, started>>
       ELSE /\ started < MaxHandlers
            /\ started' = started + 1
            /\ apiStatus' = SetStatus("Submitting...", FALSE, FALSE)
            /\ tasks' = [tasks EXCEPT ![started + 1] = BeginRequest("submit", storedKey)]
    /\ UNCHANGED <<loaded, storedKey, messageInput, logsTable, latest>>
    /\ UNCHANGED <<apiVars, other>>

\* a click on Export: exportCSV() up to its first await
ClickExport ==
    /\ loaded
    /\ started < MaxHandlers
    /\ started' = started + 1
    /\ apiStatus' = SetStatus("Preparing Export...", FALSE, FALSE)
    /\ tasks' = [tasks EXCEPT ![started + 1] = BeginRequest("export", storedKey)]
    /\ UNCHANGED <<loaded, storedKey, messageInput, logsTable, latest>>
    /\ UNCHANGED <<apiVars, other>>

\* getApiKey: the fetch of /key/generate fails; the catch logs it and the
\* caller goes on without a key (lines 37, 43-47)
KeyGenReject(t) ==
    /\ tasks[t].pc = "keygen"
    /\ tasks' = [tasks EXCEPT ![t].pc = "fetch"]
    /\ UNCHANGED <<loaded, storedKey, messageInput, apiStatus, logsTable, started, latest>>
    /\ UNCHANGED <<apiVars, other>>

\* getApiKey: /key/generate answers; its body is awaited (lines 37-38)
KeyGenResolve(t) ==
    /\ tasks[t].pc = "keygen"
    /\ tasks' = [tasks EXCEPT ![t].pc = "keyjson"]
    /\ UNCHANGED <<loaded, storedKey, messageInput, apiStatus, logsTable, started, latest>>
    /\ UNCHANGED <<apiVars, other>>

\* getApiKey: the body of the answer, a, is read and decoded (lines 38-47),
\* and the caller goes on to its fetch
KeyJsonRead(t, a) ==
    /\ tasks[t].pc = "keyjson"
    /\ LET data == KeyResponse(a, t) IN
       IF data.valid /\ (data.status = "success" \/ data.api_key # Absent)
       THEN /\ storedKey' = IF data.api_key = Absent THEN "undefined" ELSE data.api_key
            /\ tasks' = [tasks EXCEPT ![t].pc = "fetch",
                                      ![t].key = IF data.api_key = Absent
                                                 THEN UndefinedKey
                                                 ELSE data.api_key]
       ELSE /\ UNCHANGED storedKey
            /\ tasks' = [tasks EXCEPT ![t].pc = "fetch"]
    /\ UNCHANGED <<loaded, messageInput, apiStatus, logsTable, started, latest>>
    /\ UNCHANGED <<apiVars, other>>

\* getApiKey: reading the body of the answer fails in the transport
KeyJsonFail(t) ==
    /\ tasks[t].pc = "keyjson"
    /\ tasks' = [tasks EXCEPT ![t].pc = "fetch"]
    /\ UNCHANGED <<loaded, storedKey, messageInput, apiStatus, logsTable, started, latest>>
    /\ UNCHANGED <<apiVars, other>>

\* the catch block of a handler: the error is shown, the handler ends
Escape(t, msg) ==
    /\ tasks' = [tasks EXCEPT ![t] = Ended]
    /\ UNCHANGED <<apiStatus, messageInput, logsTable, started, latest>>
Fail(t, msg) ==
    /\ apiStatus' = SetStatus(FailurePrefix(tasks[t].kind) \o msg, TRUE, FALSE)
    /\ tasks' = [tasks EXCEPT ![t] = Ended]
    /\ UNCHANGED <<messageInput, logsTable, started, latest>>

\* the text of the error the closure's apiFetch throws for a response that
\* is not ok and whose body is the JSON value json (lines 63-68)
HttpFailureText(json, r) ==
    ToString(r.status) \o " " \o
        ToStringJS(OrElse(OrElse(OrElse(FieldMessage(json), FieldError(json)),
                                 StrV(r.statusText)),
                          StrV(r.statusText)))

\* the message of the error exportCSV throws for a response that is not ok
\* (lines 172-173); errorData is {} when the body is no JSON
ExportFailureText(r) ==
    LET errorData == IF JsonValid(r.body) THEN JsonParse(r.body)
                     ELSE ObjV(Absent, Absent, None)
    IN ToStringJS(OrElse(OrElse(FieldMessage(errorData), FieldError(errorData)),
                         StrV("Export failed")))

\* data.logs || data.results || [], as the number of rows
LogsOf(data) == IF data.type = "object" /\ data.logs # None THEN data.logs ELSE 0

\* the fetch of a handler's request fails in the network
PageFetchReject(t) ==
    /\ tasks[t].pc = "fetch"
    /\ Fail(t, "Failed to fetch")
    /\ UNCHANGED <<loaded, storedKey>>
    /\ UNCHANGED <<apiVars, other>>

\* the fetch of a handler's request is answered; the body is awaited
\* (lines 59-74 for refreshLogs and submitLog, 164-176 for exportCSV)
PageFetchResolve(t, r) ==
    /\ tasks[t].pc = "fetch"
    /\ tasks' = [tasks EXCEPT
            ![t].res = r,
            ![t].key = NoKey,
            ![t].pc = IF tasks[t].kind = "export"
                      THEN (IF Ok(r) THEN "blob" ELSE "exporterr")
                      ELSE (IF Ok(r) THEN "body" ELSE "errjson")]
    /\ UNCHANGED <<loaded, storedKey, messageInput, apiStatus, logsTable, started, latest>>
    /\ UNCHANGED <<apiVars, other>>

\* refreshLogs after its apiFetch returned data (lines 116-118)
RefreshDone(t, data) ==
    /\ logsTable' = LogsOf(data)
    /\ apiStatus' = SetStatus("Fetched " \o ToString(LogsOf(data)) \o " logs",
                              FALSE, TRUE)
    /\ tasks' = [tasks EXCEPT ![t] = Ended]
    /\ UNCHANGED <<messageInput, started, latest>>

\* submitLog after its apiFetch returned (lines 148-150): the field is
\* cleared and refreshLogs() runs up to its first await
SubmitDoneKeepsInput(t) ==
    /\ apiStatus' = SetStatus("Fetching logs...", FALSE, FALSE)
    /\ tasks' = [tasks EXCEPT ![t] = BeginRequest("refresh", storedKey)]
    /\ latest' = t
    /\ UNCHANGED <<messageInput, logsTable, started>>
SubmitDone(t) ==
    /\ messageInput' = ""
    /\ apiStatus' = SetStatus("Fetching logs...", FALSE, FALSE)
    /\ tasks' = [tasks EXCEPT ![t] = BeginRequest("refresh", storedKey)]
    /\ latest' = t
    /\ UNCHANGED <<logsTable, started>>

\* exportCSV after the blob arrived (lines 176-186)
ExportDone(t) ==
    /\ apiStatus' = SetStatus("CSV Exported & Saved to server!", FALSE, TRUE)
    /\ tasks' = [tasks EXCEPT ![t] = Ended]
    /\ UNCHANGED <<messageInput, logsTable, started, latest>>

\* the body a handler awaits has arrived and is decoded
PageBodyRead(t) ==
    LET r == tasks[t].res
        kind == tasks[t].kind
    IN
    /\ tasks[t].pc \in {"errjson", "body", "blob", "exporterr"}
    /\ CASE tasks[t].pc = "errjson" ->
                IF JsonValid(r.body)
                THEN Fail(t, HttpFailureText(JsonParse(r.body), r))
                ELSE Fail(t, BodyUsedError)
         [] tasks[t].pc = "exporterr" -> Fail(t, ExportFailureText(r))
         [] tasks[t].pc = "blob" -> ExportDone(t)
         [] OTHER ->
                IF IncludesJson(ContentType(r)) /\ ~JsonValid(r.body)
                THEN Fail(t, JsonSyntaxError(r.body))
                ELSE IF kind = "refresh"
                THEN RefreshDone(t, IF IncludesJson(ContentType(r))
                                    THEN JsonParse(r.body) ELSE StrV(r.body))
                ELSE SubmitDone(t)
    /\ UNCHANGED <<loaded, storedKey>>
    /\ UNCHANGED <<apiVars, other>>

\* reading the body a handler awaits fails in the transport
PageBodyFail(t) ==
    /\ tasks[t].pc \in {"errjson", "body", "blob", "exporterr"}
    /\ CASE tasks[t].pc = "errjson" -> Fail(t, BodyUsedError)
         [] tasks[t].pc = "exporterr" -> Fail(t, "Export failed")
         [] OTHER -> Fail(t, StreamError)
    /\ UNCHANGED <<loaded, storedKey>>
    /\ UNCHANGED <<apiVars, other>>

UINext ==
    \/ Startup
    \/ \E v \in MessageValues : TypeMessage(v)
    \/ ClickRefresh
    \/ ClickSubmit
    \/ ClickExport
    \/ \E t \in 1..MaxHandlers : KeyGenReject(t)
    \/ \E t \in 1..MaxHandlers : KeyGenResolve(t)
    \/ \E t \in 1..MaxHandlers, a \in KeyAnswers : KeyJsonRead(t, a)
    \/ \E t \in 1..MaxHandlers : KeyJsonFail(t)
    \/ \E t \in 1..MaxHandlers : PageFetchReject(t)
    \/ \E t \in 1..MaxHandlers, r \in PageResponses : PageFetchResolve(t, r)
    \/ \E t \in 1..MaxHandlers : PageBodyRead(t)
    \/ \E t \in 1..MaxHandlers : PageBodyFail(t)

UISpec == UIInit /\ [][UINext]_vars

\* the page when what runs locally is scheduled: its script runs init().
\* The handlers arm no timer; nothing is assumed of the user or the backend.
FairUISpec == UISpec /\ WF_vars(Startup)

\* C10: every invocation of refreshLogs, submitLog and exportCSV that has
\* issued a request ends (with its result or its error in the status area),
\* also when the backend never answers.
C10_HandlersEnd ==
    \A t \in 1..MaxHandlers :
        (tasks[t].pc \notin {"idle", "done"}) ~> (tasks[t].pc = "done")

\* the keys the backend has issued: the one stored before the page was
\* loaded, and the ones POST /key/generate answers
IssuedKeys == {"key0"} \cup {"key" \o ToString(t) : t \in 1..MaxHandlers}

\* C11: every request of refreshLogs, submitLog and exportCSV that is in
\* flight carries an X-API-KEY header whose value is a key the backend
\* issued, whether the generation of a key succeeded or failed.
C11_RequestsCarryCredential ==
    \A t \in 1..MaxHandlers :
        tasks[t].pc = "fetch" =>
            XApiKeyHeader(tasks[t].kind, tasks[t].key) \in IssuedKeys

\* C12: submitLog issues no POST /logs when the message field is empty or
\* only whitespace: no step starts a submit's request from such a field, and
\* a click on Submit with such a field sets the error status "Please enter a
\* message" and starts no request, whatever else is in flight.
C12_EmptyMessageNoPost ==
    [][/\ \A t \in 1..MaxHandlers :
            (tasks'[t].kind = "submit" /\ tasks[t].kind # "submit") =>
                messageInput \notin {"", "  "}
       /\ (ClickSubmit /\ messageInput \in {"", "  "}) =>
            /\ tasks' = tasks
            /\ storedKey' = storedKey
            /\ apiStatus' = [text |-> "Please enter a message", class |-> "error"]
      ]_vars

C12_Witness ==
    /\ messageInput = "  "
    /\ apiStatus = [text |-> "Please enter a message", class |-> "error"]
    /\ \E t \in 1..MaxHandlers : tasks[t].kind = "refresh" /\ tasks[t].pc = "fetch"
    /\ \A t \in 1..MaxHandlers : tasks[t].kind # "submit"

\* C13: whenever the request of refreshLogs, submitLog or exportCSV fails (the
\* fetch is rejected, the response is not ok, or its body cannot be decoded
\* or read), the step in which the handler ends leaves the status area with
\* the error indicator and the handler's failure text followed by the error
\* message; a handler ends otherwise only with the success indicator, after an
\* ok response.
C13_FailureShown ==
    [][\A t \in 1..MaxHandlers :
        (tasks[t].pc \in {"fetch", "errjson", "body", "blob", "exporterr"}
            /\ tasks'[t].pc = "done") =>
            LET k == tasks[t].kind
                r == tasks[t].res
                prefix == IF k = "refresh" THEN "Fetch failed: "
                          ELSE IF k = "submit" THEN "Submit failed: "
                          ELSE "Export failed: "
                undecodable == /\ k # "export"
                               /\ r.contentType = "application/json; charset=utf-8"
                               /\ r.body = ""
                failed == \/ tasks[t].pc = "fetch"
                          \/ r.status < 200
                          \/ r.status > 299
                          \/ undecodable
                shown == /\ apiStatus'.class = "error"
                         /\ Len(apiStatus'.text) > Len(prefix)
                         /\ SubSeq(apiStatus'.text, 1, Len(prefix)) = prefix
            IN shown \/ (~failed /\ apiStatus'.class = "success")
      ]_vars

C13_Witness ==
    /\ apiStatus = [text |-> "Submit failed: 500 bad input", class |-> "error"]
    /\ tasks[1].pc = "done"
    /\ messageInput = "disk full "

\* C14: within one call the attempts are sequential and bounded: the attempt
\* in progress has an index in 0..retries and is the only one that has not
\* ended, at most retries+1 attempts are started, an attempt other than the
\* first starts only when the backoff delay after the previous attempt has
\* elapsed, and a call that has returned or thrown starts no attempt.
C14_AttemptsSequentialBounded ==
    /\ [](/\ pc # "init" => (attempts <= retries + 1 /\ attempts >= 1)
          /\ pc \in {"fetching", "parsing"} =>
                /\ attempt \in 0..retries
                /\ attempts = attempt + 1
                /\ Len(outcomes) = attempt
                /\ Len(delays) = attempt
          /\ pc = "delay" =>
                /\ attempt \in 0..(retries - 1)
                /\ attempts = attempt + 1
                /\ Len(outcomes) = attempt + 1
                /\ Len(delays) = attempt + 1)
    /\ [][/\ attempts' # attempts =>
                /\ attempts' = attempts + 1
                /\ pc \in {"init", "delay"}
                /\ pc' = "fetching"
                /\ attempt' = attempts
          /\ pc \in {"returned", "thrown"} =>
                /\ attempts' = attempts
                /\ pc' = pc
                /\ outcomes' = outcomes
                /\ delays' = delays
         ]_vars

C14_Witness ==
    /\ pc = "returned"
    /\ retries = 2
    /\ attempts = 2
    /\ Len(delays) = 1
    /\ timers = {0}

\* C15: a timeout timer cancels only the fetch of its own attempt: a timer
\* that fires while another attempt is in progress, or while no fetch is
\* pending, changes nothing of the call but the set of armed timers, and an
\* attempt ends as a timeout only in a step in which its own timer fires
\* while its fetch is pending.
C15_CancellationScoped ==
    [][/\ \A i \in timers :
            (i \notin timers' /\ ~(pc = "fetching" /\ attempt = i)) =>
                /\ pc' = pc
                /\ attempt' = attempt
                /\ attempts' = attempts
                /\ outcomes' = outcomes
                /\ delays' = delays
                /\ lastError' = lastError
                /\ thrown' = thrown
                /\ result' = result
                /\ res' = res
       /\ (Len(outcomes') > Len(outcomes)
            /\ outcomes'[Len(outcomes')].kind = "timeout") =>
                /\ pc = "fetching"
                /\ attempt \in timers
                /\ timers' = timers \ {attempt}
      ]_vars

\* a timer leaked by attempt 0 fired while attempt 1 was in progress, and
\* attempt 1 went on to succeed
C15_Witness ==
    /\ fired = {0}
    /\ pc = "returned"
    /\ attempts = 2
    /\ outcomes[1].kind = "network"
    /\ outcomes[2].kind = "ok"

\* what the locals l of one invocation must be, given the arguments and the
\* ways its own attempts ended
OwnInputsDecide(l) ==
    LET n == Len(l.outcomes)
        retried(o) == \/ o.kind \in {"network", "parse"}
                      \/ (o.kind = "http" /\ (o.status < 400 \/ o.status >= 500))
    IN
    /\ l.pc = "init" => l = NotCalled
    /\ l.pc # "init" =>
            /\ l.timeout = (IF opts.timeout = None THEN 30000 ELSE opts.timeout)
            /\ l.retries = (IF opts.retries = None THEN 0 ELSE opts.retries)
            /\ l.retryDelay = (IF opts.retryDelay = None THEN 1000 ELSE opts.retryDelay)
            /\ l.sentHeaders =
                    [xApiKey |-> "uls_key",
                     contentType |-> IF opts.contentType = Absent
                                     THEN "application/json" ELSE opts.contentType]
            /\ l.url = "/api" \o path
            /\ l.attempts <= l.retries + 1
            /\ l.delays = [k \in 1..Len(l.delays) |-> l.retryDelay * k]
    /\ l.attempts = (IF l.pc \in {"fetching", "parsing"} THEN n + 1 ELSE n)
    /\ \A i \in 1..(n - 1) : retried(l.outcomes[i])
    /\ l.pc = "returned" <=> (n >= 1 /\ l.outcomes[n].kind = "ok")
    /\ l.pc = "delay" => (n >= 1 /\ Len(l.delays) = n)
    /\ l.pc \in {"fetching", "parsing"} => Len(l.delays) = n
    /\ l.pc = "thrown" <=>
            /\ n >= 1
            /\ \/ l.outcomes[n].kind = "timeout"
               \/ (l.outcomes[n].kind = "http" /\ l.outcomes[n].status >= 400
                        /\ l.outcomes[n].status < 500)
               \/ (retried(l.outcomes[n]) /\ n = l.retries + 1)

\* C16: apiFetch writes nothing that calls share: every step leaves the
\* caller's options object (its headers with it), the path and the page with
\* its stored credential unchanged, and changes the locals of the running
\* invocation only; so, however two calls made with the same options object
\* interleave, where each stands, how many attempts it made and how it ended
\* are decided by the arguments and by how its own attempts ended.
C16_NoSharedState ==
    /\ [](OwnInputsDecide(Locals) /\ OwnInputsDecide(other))
    /\ [][/\ opts' = opts
          /\ path' = path
          /\ storedKey' = storedKey
          /\ UNCHANGED uiVars
          /\ other' = other \/ (other' = Locals /\ Locals' = other)
         ]_vars

C16_Witness ==
    /\ opts.contentType = Absent
    /\ retries = 1
    /\ pc = "returned"
    /\ attempts = 1
    /\ other.pc = "thrown"
    /\ other.outcomes = <<Outcome("http", 500), Outcome("network", NoStatus)>>
    /\ other.thrown.message = "Failed to fetch"

\* C17: once a key is stored in localStorage no step stores a different one,
\* and no step issues POST /key/generate, however the calls of getApiKey
\* interleave.
C17_StoredKeyStable ==
    [][storedKey # NoKey =>
            /\ storedKey' = storedKey
            /\ \A t \in 1..MaxHandlers :
                    tasks'[t].pc = "keygen" => tasks[t].pc = "keygen"
      ]_vars

\* C18: of overlapping invocations of refreshLogs the one that began most
\* recently decides what the table shows: once it has ended, no refreshLogs
\* that began before it replaces the rows of the table (with its status).
C18_LatestRefreshShown ==
    [][\A t \in 1..MaxHandlers :
        (/\ latest # 0
         /\ t # latest
         /\ tasks[latest].pc = "done"
         /\ tasks[t].kind = "refresh"
         /\ tasks'[t].pc = "done") =>
            logsTable' = logsTable
      ]_vars

\* C19 as stated: when the POST /logs of submitLog was answered with an ok
\* status, the handler clears the message field and starts a refreshLogs.
C19_Original ==
    [][\A t \in 1..MaxHandlers :
        (tasks[t].kind = "submit" /\ tasks[t].pc = "body" /\ tasks'[t].pc # "body") =>
            /\ messageInput' = ""
            /\ tasks'[t].kind = "refresh"
      ]_vars

\* C19 as amended: submitLog ends its POST /logs in one of two ways.  When
\* the response was ok and its body was read and decoded, the message field
\* is cleared and a refreshLogs is started, in the same step.  Otherwise
\* (the fetch was rejected, the response was not ok, or the body of an ok
\* response could not be read or decoded) the message field keeps its
\* content, no refreshLogs is started and the error status is shown.
C19_SubmitOutcome ==
    [][\A t \in 1..MaxHandlers :
        (tasks[t].kind = "submit" /\ tasks'[t].kind # "submit") =>
            LET r == tasks[t].res
                decoded == ~(r.contentType = "application/json; charset=utf-8"
                             /\ r.body = "")
            IN
            \/ /\ tasks[t].pc = "body"
               /\ r.status >= 200 /\ r.status <= 299
               /\ decoded
               /\ messageInput' = ""
               /\ tasks'[t].kind = "refresh"
               /\ tasks'[t].pc \in {"keygen", "fetch"}
               /\ latest' = t
            \/ /\ tasks'[t].pc = "done"
               /\ messageInput' = messageInput
               /\ latest' = latest
               /\ \A u \in 1..MaxHandlers : tasks'[u].kind = "refresh" =>
                                                tasks[u].kind = "refresh"
               /\ apiStatus'.class = "error"
      ]_vars

\* the POST was answered 200 with a body that is no JSON: the field is kept
C19_Witness ==
    /\ apiStatus = [text |-> "Submit failed: Unexpected end of JSON input",
                    class |-> "error"]
    /\ messageInput = "disk full "
    /\ tasks[2].pc = "done"
    /\ latest = 1

====
